---- MODULE Spec2Model ----
(***************************************************************************)
(* Model of the guestbook submission handler, internal/handler/home.go.    *)
(*                                                                         *)
(* Guestbook.Create is modelled as one worker per inbound request.  A      *)
(* worker's steps are cut where the handler touches state shared with the  *)
(* other workers (the guest repository and the wall clock):                *)
(*   Receive    lines 71-109  form parsing, field and blank checks,        *)
(*                            identity resolution                          *)
(*   RateLimit  lines 111-118 repo.LastMessage and the one-minute rule     *)
(*   Wake       lines 115-116 time.Sleep(time.Minute) elapsing             *)
(*   Moderate   lines 120-141 newline normalization, profanity, links      *)
(*   Persist    lines 143-157 guest.NewGuest, repo.Insert, redirect        *)
(*   Cancel     lines 111-116 the request context canceled during the      *)
(*                            sleep                                        *)
(* Specifications: Spec (the storage may fail), SpecReliable (it never     *)
(* does), SpecCancel (clients may go away during the delay), SpecStored    *)
(* (the repository holds an entry from the start), SpecFair (fair          *)
(* scheduling), SpecNormalize (line 120 alone, over every short text).     *)
(* Text is a sequence of one-character strings.                            *)
(***************************************************************************)
EXTENDS Integers, Sequences, FiniteSets, TLC

\* ------------------------------------------------------------------ text

\* The empty text "".
Empty == << >>

RECURSIVE IndexFrom(_, _, _)
\* The least index i >= from with s[i] = c, or 0: strings.IndexByte.
IndexFrom(s, c, from) ==
    IF from > Len(s) THEN 0
    ELSE IF s[from] = c THEN from
    ELSE IndexFrom(s, c, from + 1)

RECURSIVE Split(_, _)
\* strings.Split(s, sep) for a one-character separator: the pieces between
\* the separators, always at least one piece (Split("", ",") = [""]).
Split(s, sep) ==
    LET i == IndexFrom(s, sep, 1)
    IN  IF i = 0 THEN << s >>
        ELSE << SubSeq(s, 1, i - 1) >> \o Split(SubSeq(s, i + 1, Len(s)), sep)

RECURSIVE Join(_, _)
\* strings.Join(parts, sep).
Join(parts, sep) ==
    IF Len(parts) = 0 THEN Empty
    ELSE IF Len(parts) = 1 THEN parts[1]
    ELSE parts[1] \o sep \o Join(Tail(parts), sep)

RECURSIVE TrimLeft(_, _)
\* strings.TrimLeft(s, cutset): drop leading characters that are in cutset.
TrimLeft(s, cutset) ==
    IF Len(s) > 0 /\ s[1] \in cutset THEN TrimLeft(Tail(s), cutset) ELSE s

RECURSIVE TrimRight(_, _)
\* strings.TrimRight(s, cutset).
TrimRight(s, cutset) ==
    IF Len(s) > 0 /\ s[Len(s)] \in cutset
    THEN TrimRight(SubSeq(s, 1, Len(s) - 1), cutset)
    ELSE s

\* strings.Trim(s, cutset).
Trim(s, cutset) == TrimRight(TrimLeft(s, cutset), cutset)

\* The white space of unicode.IsSpace that the model's alphabet holds.
WhiteSpace == {" ", "\t", "\n", "\r", "\f"}

\* strings.TrimSpace(s).
TrimSpace(s) == Trim(s, WhiteSpace)

\* strings.Contains(s, sub).
Contains(s, sub) ==
    \E i \in 1..(Len(s) - Len(sub) + 1) : SubSeq(s, i, i + Len(sub) - 1) = sub

RECURSIVE ReplaceNewlines(_)
\* newlineRegex.ReplaceAllString(s, " ") for the pattern \r?\n: every
\* leftmost match, a CR LF pair or a bare LF, becomes one space.
ReplaceNewlines(s) ==
    IF Len(s) = 0 THEN Empty
    ELSE IF Len(s) >= 2 /\ s[1] = "\r" /\ s[2] = "\n"
         THEN << " " >> \o ReplaceNewlines(SubSeq(s, 3, Len(s)))
    ELSE IF s[1] = "\n"
         THEN << " " >> \o ReplaceNewlines(Tail(s))
    ELSE << s[1] >> \o ReplaceNewlines(Tail(s))

\* ------------------------------------------------------------ net.ParseIP

\* An absent identity: the nil net.IP that net.ParseIP returns on failure.
NoIP == << >>

Digits == {"0", "1", "2", "3", "4", "5", "6", "7", "8", "9"}

\* The value of a hexadecimal digit, or -1.
HexVal(c) ==
    CASE c = "0" -> 0 [] c = "1" -> 1 [] c = "2" -> 2 [] c = "3" -> 3
      [] c = "4" -> 4 [] c = "5" -> 5 [] c = "6" -> 6 [] c = "7" -> 7
      [] c = "8" -> 8 [] c = "9" -> 9
      [] c \in {"a", "A"} -> 10 [] c \in {"b", "B"} -> 11
      [] c \in {"c", "C"} -> 12 [] c \in {"d", "D"} -> 13
      [] c \in {"e", "E"} -> 14 [] c \in {"f", "F"} -> 15
      [] OTHER -> -1

RECURSIVE NumVal(_, _)
\* The number the digits of s write in the given base (digits assumed valid).
NumVal(s, base) ==
    IF Len(s) = 0 THEN 0
    ELSE NumVal(SubSeq(s, 1, Len(s) - 1), base) * base + HexVal(s[Len(s)])

\* One dotted-decimal field: decimal digits, no leading zero, at most 255.
IsV4Field(f) ==
    /\ Len(f) >= 1
    /\ Len(f) <= 3
    /\ \A i \in 1..Len(f) : f[i] \in Digits
    /\ (Len(f) > 1 => f[1] # "0")
    /\ NumVal(f, 10) <= 255

\* Whether s is a dotted-decimal IPv4 address.
IsIPv4(s) ==
    LET f == Split(s, ".")
    IN  Len(f) = 4 /\ \A i \in 1..4 : IsV4Field(f[i])

\* The two 16-bit groups an IPv4 address fills.
V4Groups(s) ==
    LET f == Split(s, ".")
    IN  << NumVal(f[1], 10) * 256 + NumVal(f[2], 10),
           NumVal(f[3], 10) * 256 + NumVal(f[4], 10) >>

\* One IPv6 group: one to four hexadecimal digits.
IsV6Group(g) ==
    /\ Len(g) >= 1
    /\ Len(g) <= 4
    /\ \A i \in 1..Len(g) : HexVal(g[i]) >= 0

\* A colon-separated run of groups whose last may be an embedded IPv4
\* address when tail is TRUE; the empty text is the empty run.
IsV6Run(s, tail) ==
    \/ Len(s) = 0
    \/ LET p == Split(s, ":")
       IN  /\ \A i \in 1..(Len(p) - 1) : IsV6Group(p[i])
           /\ \/ IsV6Group(p[Len(p)])
              \/ tail /\ IsIPv4(p[Len(p)])

RECURSIVE GroupVals(_)
\* The 16-bit groups of a sequence of parts (an IPv4 part giving two).
GroupVals(p) ==
    IF Len(p) = 0 THEN << >>
    ELSE IF IndexFrom(p[1], ".", 1) > 0
         THEN V4Groups(p[1]) \o GroupVals(Tail(p))
    ELSE << NumVal(p[1], 16) >> \o GroupVals(Tail(p))

\* The groups of a run.
V6RunGroups(s) == IF Len(s) = 0 THEN << >> ELSE GroupVals(Split(s, ":"))

\* n zero groups.
Zeros(n) == [i \in 1..n |-> 0]

\* The positions where "::" starts in s.
Ellipses(s) == {i \in 1..(Len(s) - 1) : s[i] = ":" /\ s[i + 1] = ":"}

\* parseIPv6: eight 16-bit groups, at most one "::" standing for one or more
\* zero groups, an optional dotted-decimal tail; NoIP when malformed.
ParseIPv6(s) ==
    LET e == Ellipses(s)
    IN  IF e = {}
        THEN IF Len(s) > 0 /\ IsV6Run(s, TRUE) /\ Len(V6RunGroups(s)) = 8
             THEN V6RunGroups(s)
             ELSE NoIP
        ELSE IF Cardinality(e) > 1 THEN NoIP
        ELSE LET k == CHOOSE i \in e : TRUE
                 left == SubSeq(s, 1, k - 1)
                 right == SubSeq(s, k + 2, Len(s))
             IN  IF /\ IsV6Run(left, FALSE)
                    /\ IsV6Run(right, TRUE)
                    /\ Len(V6RunGroups(left)) + Len(V6RunGroups(right)) <= 7
                 THEN V6RunGroups(left)
                      \o Zeros(8 - Len(V6RunGroups(left)) - Len(V6RunGroups(right)))
                      \o V6RunGroups(right)
                 ELSE NoIP

\* parseIPv4: the address in its 16-byte form, ::ffff:a.b.c.d.
ParseIPv4(s) ==
    IF IsIPv4(s) THEN << 0, 0, 0, 0, 0, 65535 >> \o V4Groups(s) ELSE NoIP

\* net.ParseIP(s): the first '.' or ':' of s decides the family; no trimming
\* of white space; NoIP (nil) for anything else.
ParseIP(s) ==
    LET dot == IndexFrom(s, ".", 1)
        colon == IndexFrom(s, ":", 1)
    IN  IF dot = 0 /\ colon = 0 THEN NoIP
        ELSE IF colon = 0 \/ (dot > 0 /\ dot < colon) THEN ParseIPv4(s)
        ELSE ParseIPv6(s)

\* ip.String(): the text of an identity.

RECURSIVE NumText(_, _)
\* n >= 0 written in the given base, lower case, no leading zeros.
NumText(n, base) ==
    LET d == << "0", "1", "2", "3", "4", "5", "6", "7", "8", "9",
                "a", "b", "c", "d", "e", "f" >>
    IN  IF n < base THEN << d[n + 1] >>
        ELSE NumText(n \div base, base) \o << d[(n % base) + 1] >>

\* The length of the run of zero groups of ip that starts at group i.
RECURSIVE ZeroRun(_, _)
ZeroRun(ip, i) == IF i > 8 \/ ip[i] # 0 THEN 0 ELSE 1 + ZeroRun(ip, i + 1)

\* The groups i..j of ip in hexadecimal, joined by colons.
HexRun(ip, i, j) == Join([k \in 1..(j - i + 1) |-> NumText(ip[i + k - 1], 16)], <<":">>)

\* net.IP.String(): "<nil>" for the nil IP, dotted decimal for an IPv4
\* address (also in its 16-byte form), otherwise the groups in hexadecimal
\* with the first longest run of two or more zero groups written "::".
IPString(ip) ==
    IF ip = NoIP THEN << "<", "n", "i", "l", ">" >>
    ELSE IF SubSeq(ip, 1, 6) = << 0, 0, 0, 0, 0, 65535 >>
    THEN Join(<< NumText(ip[7] \div 256, 10), NumText(ip[7] % 256, 10),
                 NumText(ip[8] \div 256, 10), NumText(ip[8] % 256, 10) >>, <<".">>)
    ELSE LET best == CHOOSE i \in 1..8 :
                        \A j \in 1..8 : \/ ZeroRun(ip, j) < ZeroRun(ip, i)
                                        \/ ZeroRun(ip, j) = ZeroRun(ip, i) /\ i <= j
             n == ZeroRun(ip, best)
         IN  IF n < 2 THEN HexRun(ip, 1, 8)
             ELSE HexRun(ip, 1, best - 1) \o << ":", ":" >> \o HexRun(ip, best + n, 8)

\* ------------------------------------------------------ moderation detectors

\* The words of the lexicon and of the link pattern, as texts.
CRAP == << "c", "r", "a", "p" >>

HTTP == << "h", "t", "t", "p", ":", "/", "/" >>

COM == << "c", "o", "m" >>

EXAMPLE == << "e", "x", "a", "m", "p", "l", "e" >>


Lower == {"a", "b", "c", "d", "e", "f", "g", "h", "i", "j", "k", "l", "m",
          "n", "o", "p", "q", "r", "s", "t", "u", "v", "w", "x", "y", "z"}

Upper == {"H"}

\* The characters of a domain label.
LabelChars == Lower \cup Upper \cup Digits

RECURSIVE Sanitize(_)
\* goaway's sanitizing of a text before the lexicon search: the spaces are
\* removed, so that a word spelled with gaps is still found.
Sanitize(s) ==
    IF Len(s) = 0 THEN Empty
    ELSE IF s[1] = " " THEN Sanitize(Tail(s))
    ELSE << s[1] >> \o Sanitize(Tail(s))

\* An excerpt of goaway's default lexicon.
Profanities == { CRAP }

\* goaway.IsProfane(s): the sanitized text contains a word of the lexicon.
IsProfane(s) == \E w \in Profanities : Contains(Sanitize(s), w)

\* The schemes and the top-level domains (an excerpt) that xurls knows.
Schemes == { HTTP }

TLDs == { COM, EXAMPLE }

\* A scheme followed by at least one character that is not white space.
HasSchemeURL(s) ==
    \E sch \in Schemes : \E i \in 1..Len(s) :
        /\ i + Len(sch) <= Len(s)
        /\ SubSeq(s, i, i + Len(sch) - 1) = sch
        /\ s[i + Len(sch)] \notin WhiteSpace

\* A bare domain: a label character, a dot, and a known top-level domain
\* that ends the text or is followed by a character that is not of a label.
HasBareDomain(s) ==
    \E tld \in TLDs : \E i \in 2..Len(s) :
        /\ s[i] = "."
        /\ s[i - 1] \in LabelChars
        /\ i + Len(tld) <= Len(s)
        /\ SubSeq(s, i + 1, i + Len(tld)) = tld
        /\ (i + Len(tld) < Len(s) => s[i + Len(tld) + 1] \notin LabelChars)

\* A slip: the strict pattern, which needs a scheme, instead of the relaxed.
MatchLink_SchemeOnly(s) == HasSchemeURL(s)

\* linkRegex.MatchString(s) for xurls.Relaxed(): a URL with a scheme or a
\* bare domain anywhere in s.
MatchLink(s) == HasSchemeURL(s) \/ HasBareDomain(s)

\* ---------------------------------------------------------------- inputs

\* The texts the requests of the model are made of.
TxtHelloWorld ==
    << "H", "e", "l", "l", "o", " ", "w", "o", "r", "l", "d" >>

TxtHi ==
    << "H", "i" >>

TxtAll ==
    << "a", "l", "l" >>

TxtSpaces ==
    << " ", " ", " " >>

TxtTab ==
    << "\t" >>

TxtCrLf ==
    << "\r", "\n" >>

TxtMultiLine ==
    << "a", "\r", "\n", "b", "\n", "c" >>

TxtPadded ==
    << " ", "h", "i", " " >>

TxtCrap ==
    << "c", "r", "a", "p" >>

TxtSplitCrap ==
    << "c", "r", "\n", "a", "p" >>

TxtVisitEvil ==
    << "v", "i", "s", "i", "t", " ", "h", "t", "t", "p", ":", "/", "/",
       "e", "v", "i", "l", ".", "e", "x", "a", "m", "p", "l", "e", " ",
       "n", "o", "w" >>

TxtSeeDomain ==
    << "s", "e", "e", " ", "e", "x", "a", "m", "p", "l", "e", ".", "c",
       "o", "m" >>

TxtCrapDomain ==
    << "c", "r", "a", "p", " ", "e", "x", "a", "m", "p", "l", "e", ".",
       "c", "o", "m" >>

TxtXffSpaced ==
    << "1", ".", "2", ".", "3", ".", "4", ",", " ", "5", ".", "6", ".",
       "7", ".", "8" >>

TxtXffTight ==
    << "1", ".", "2", ".", "3", ".", "4", ",", "5", ".", "6", ".", "7",
       ".", "8" >>

TxtXffTrailing ==
    << "1", ".", "2", ".", "3", ".", "4", "," >>

TxtXffJunk ==
    << "u", "n", "k", "n", "o", "w", "n" >>

TxtRemoteV4 ==
    << "5", ".", "6", ".", "7", ".", "8", ":", "4", "4", "3" >>

TxtRemoteV6 ==
    << "[", ":", ":", "1", "]", ":", "5", "4", "3", "2", "1" >>

TxtRemoteUnix ==
    << "@" >>

\* A parsed form: whether ParseForm succeeds, whether r.Form holds the key
\* "message", and the values under it.
Form(ok, has, values) == [ok |-> ok, has |-> has, values |-> values]

\* The forms of the model.
Forms ==
    { Form(FALSE, FALSE, << >>),
      Form(TRUE, FALSE, << >>),
      Form(TRUE, TRUE, << TxtHelloWorld >>),
      Form(TRUE, TRUE, << TxtHi, TxtAll >>),
      Form(TRUE, TRUE, << Empty >>),
      Form(TRUE, TRUE, << TxtSpaces >>),
      Form(TRUE, TRUE, << TxtTab, TxtCrLf >>),
      Form(TRUE, TRUE, << TxtMultiLine >>),
      Form(TRUE, TRUE, << TxtPadded >>),
      Form(TRUE, TRUE, << TxtCrap >>),
      Form(TRUE, TRUE, << TxtSplitCrap >>),
      Form(TRUE, TRUE, << TxtVisitEvil >>),
      Form(TRUE, TRUE, << TxtSeeDomain >>),
      Form(TRUE, TRUE, << TxtCrapDomain >>) }

\* A request: its form, its X-Forwarded-For header ("" when absent) and its
\* RemoteAddr.
Request(form, xff, remote) == [form |-> form, xff |-> xff, remote |-> remote]

\* The plain request: a greeting from a direct client.
PlainRequests == { Request(Form(TRUE, TRUE, << TxtHelloWorld >>), Empty, TxtRemoteV4) }

\* The requests of the model: every form from that client, the greeting
\* through every header and connection address, and a profanity from a
\* client whose address does not parse.
Requests ==
    { Request(f, Empty, TxtRemoteV4) : f \in Forms }
    \cup { Request(Form(TRUE, TRUE, << TxtCrap >>), TxtXffJunk, TxtRemoteV6) }
    \cup { Request(Form(TRUE, TRUE, << TxtHelloWorld >>), x, TxtRemoteV6) :
             x \in {Empty, TxtXffSpaced, TxtXffTight, TxtXffTrailing, TxtXffJunk} }
    \cup { Request(Form(TRUE, TRUE, << TxtHelloWorld >>), Empty, TxtRemoteUnix) }

NoRequest == Request(Form(FALSE, FALSE, << >>), Empty, Empty)
\* ------------------------------------------------- the handler's own steps

\* time.Minute, in seconds.
Minute == 60

\* The statuses the handler writes; NoStatus when it returns without a
\* WriteHeader call.
NoStatus == 0

StatusFound == 302

StatusBadRequest == 400

StatusInternalServerError == 500

\* A response: the status written, the body rendered, the Location header.
Response(status, body, location) ==
    [status |-> status, body |-> body, location |-> location]

NoResponse == Response(NoStatus, Empty, Empty)

\* A slip: a failure is answered like a missing field.
InternalError_BadRequest == Response(StatusBadRequest, Empty, Empty)

\* w.WriteHeader(http.StatusInternalServerError) and return: what the handler
\* writes after logging a failure.
InternalError == Response(StatusInternalServerError, Empty, Empty)

\* errorPage.ErrorMessage of the three rejections, as rendered by error.html;
\* a fixed phrase is one element of the text.
BlankBody == << "Blank messages don't count" >>

LinkBody == << "No links allowed" >>

\* A slip: the identity is left out of the message.
ProfaneBody_NoIdentity(ip) ==
    << "Please don't use profanity. Your IP has been tracked " >>

ProfaneBody(ip) ==
    << "Please don't use profanity. Your IP has been tracked " >> \o IPString(ip)

\* A slip: the values are joined with nothing between them.
JoinValues_NoSeparator(values) == Join(values, Empty)

\* message := strings.Join(msg, " ")
JoinValues(values) == Join(values, << " " >>)

\* A slip: the message is compared with "" untrimmed.
IsBlank_NoTrim(message) == message = Empty

\* strings.TrimSpace(message) == ""
IsBlank(message) == TrimSpace(message) = Empty

\* A slip: the presence of the field is not checked, and an absent field
\* reads as no values.
FormVerdict_NoFieldCheck(form) ==
    IF ~form.ok THEN "parse-error"
    ELSE IF Trim(Join(form.values, << " " >>), WhiteSpace) = Empty THEN "blank"
    ELSE "ok"

\* Lines 71-92: what the form checks decide, in their order: "parse-error",
\* "missing" (no message field), "blank" or "ok".
FormVerdict(form) ==
    IF ~form.ok THEN "parse-error"
    ELSE IF ~form.has THEN "missing"
    ELSE IF IsBlank(JoinValues(form.values)) THEN "blank"
    ELSE "ok"

\* xffStr: the last comma-separated piece of the X-Forwarded-For header.
XffStr(xff) ==
    LET xffSplits == Split(xff, ",")
    IN  IF Len(xffSplits) > 0 THEN xffSplits[Len(xffSplits)] ELSE Empty

\* A slip: the host is taken to be the first colon-separated piece.
IpStr_FirstPiece(remote) == Trim(Split(remote, ":")[1], {"[", "]"})

\* ipStr: RemoteAddr without its last colon-separated piece, brackets trimmed.
IpStr(remote) ==
    LET splits == Split(remote, ":")
    IN  Trim(Join(SubSeq(splits, 1, Len(splits) - 1), << ":" >>), {"[", "]"})

\* ip: the parsed header candidate when there is one, else the parsed
\* connection address.
ClientIP(xff, remote) ==
    IF XffStr(xff) # Empty THEN ParseIP(XffStr(xff)) ELSE ParseIP(IpStr(remote))

\* A slip: the comparison is inverted.
TooSoon_Inverted(since) == since > Minute

\* A slip: the comparison includes the minute itself.
TooSoon_Inclusive(since) == since <= Minute

\* since < time.Minute
TooSoon(since) == since < Minute

\* A slip: the limiter fails closed, a storage fault delaying the request.
Throttled_FailClosed(last, t) ==
    \/ last.err = "fault"
    \/ last.err = "nil" /\ TooSoon(t - last.createdAt)

\* Lines 112-114: err == nil and the last entry is less than a minute old
\* at time t; any error of the lookup lets the request through.
Throttled(last, t) == last.err = "nil" /\ TooSoon(t - last.createdAt)

\* A slip: the sleep is in a loop that has no exit.
AfterSleep_SleepAgain == "sleeping"

\* A slip: no return after the sleep, and the handler goes on.
AfterSleep_NoReturn == "checked"

\* Line 116: where the handler is after the sleep: it returns.
AfterSleep == "done"

\* A slip: ReplaceAllString taken for a replacement of the first match only.
Normalize_FirstOnly(message) ==
    LET k == IndexFrom(message, "\n", 1)
        start == IF k > 1 /\ message[k - 1] = "\r" THEN k - 1 ELSE k
    IN  IF k = 0 THEN message
        ELSE SubSeq(message, 1, start - 1) \o << " " >>
               \o SubSeq(message, k + 1, Len(message))

\* A slip: the stored text is trimmed as well.
Normalize_Trim(message) == TrimSpace(ReplaceNewlines(message))

\* message = newlineRegex.ReplaceAllString(message, " ")
Normalize(message) == ReplaceNewlines(message)

\* A slip: the link is looked for before the profanity.
Moderation_LinkFirst(message) ==
    IF MatchLink(message) THEN "link"
    ELSE IF IsProfane(message) THEN "profane"
    ELSE "none"

\* The rejection of the moderation, profanity first: "profane", "link" or
\* "none".
Moderation(message) ==
    IF IsProfane(message) THEN "profane"
    ELSE IF MatchLink(message) THEN "link"
    ELSE "none"

\* -------------------------------------------------- the guest repository

\* guest.NewGuest(message, ip): the entry, stamped at construction.
NewGuest(id, message, ip, t) ==
    [id |-> id, message |-> message, ip |-> ip, createdAt |-> t]

\* repo.LastMessage(ctx, ip): the latest entry of the identity, or the
\* not-found error; nothing is found for an absent identity.
LastMessage(gs, ip) ==
    LET mine == {g \in gs : g.ip = ip}
    IN  IF ip = NoIP \/ mine = {}
        THEN [err |-> "not-found", createdAt |-> 0]
        ELSE [err |-> "nil",
              createdAt |-> (CHOOSE g \in mine :
                                \A h \in mine : h.createdAt <= g.createdAt).createdAt]

\* repo.Insert(ctx, guest): the entry joins the stored ones.
Insert(gs, g) == gs \cup {g}

\* ------------------------------------------------------------ the system

\* The workers, one per inbound request.
NumWorkers == 2

Workers == 1..NumWorkers

\* How many times the clock advances on its own.
MaxTicks == 2

\* By how much the clock advances in one step.
TickSteps == {Minute - 1, Minute}

\* An observation of the repository, for the statements about it: of the
\* entries of identity id at time t, "none" when there is none (or no
\* identity), "fresh" when one is less than a minute old, "edge" when the
\* youngest is exactly a minute old, "old" when it is older.
Seen(gs, id, t) ==
    LET mine == {g \in gs : g.ip = id}
    IN  IF id = NoIP \/ mine = {} THEN "none"
        ELSE IF \E g \in mine : t - g.createdAt < Minute THEN "fresh"
        ELSE IF \E g \in mine : t - g.createdAt = Minute THEN "edge"
        ELSE "old"

VARIABLES
    now,      \* the wall clock, in seconds
    ticks,    \* how many times the clock has advanced on its own
    guests,   \* the entries the repository stores
    pc,       \* where each worker is in Create
    req,      \* each worker's request
    message,  \* each worker's local message
    ip,       \* each worker's local ip
    wakeAt,   \* when each sleeping worker's time.Sleep ends
    resp,     \* what each worker wrote to its ResponseWriter
    calls,    \* the calls each worker made, in order
    seen,     \* what the repository held of the request's identity when the
              \* request arrived and, from then on, when its last entry was
              \* looked up: see Seen
    canceled  \* whether each worker's request context, r.Context(), is done

vars == << now, ticks, guests, pc, req, message, ip, wakeAt, resp, calls, seen,
          canceled >>

Init ==
    /\ now = 0
    /\ ticks = 0
    /\ guests = {}
    /\ pc = [w \in Workers |-> "idle"]
    /\ req = [w \in Workers |-> NoRequest]
    /\ message = [w \in Workers |-> Empty]
    /\ ip = [w \in Workers |-> NoIP]
    /\ wakeAt = [w \in Workers |-> 0]
    /\ resp = [w \in Workers |-> NoResponse]
    /\ calls = [w \in Workers |-> << >>]
    /\ seen = [w \in Workers |-> "unset"]
    /\ canceled = [w \in Workers |-> FALSE]

\* The handler returns having written r and made the calls cs; its locals
\* are gone.
Return(w, r, cs) ==
    /\ pc' = [pc EXCEPT ![w] = "done"]
    /\ resp' = [resp EXCEPT ![w] = r]
    /\ calls' = [calls EXCEPT ![w] = calls[w] \o cs]
    /\ message' = [message EXCEPT ![w] = Empty]
    /\ ip' = [ip EXCEPT ![w] = NoIP]
    /\ wakeAt' = [wakeAt EXCEPT ![w] = 0]

\* Lines 71-109: the request r arrives at worker w; the form is parsed, the
\* field and the blank message are rejected, the identity is resolved.  The
\* variety of the requests is explored one request at a time: the others in
\* the system are plain.
Receive(w, r) ==
    /\ pc[w] = "idle"
    /\ \/ r \in PlainRequests
       \/ \A v \in Workers \ {w} : req[v] \in PlainRequests \cup {NoRequest}
    /\ req' = [req EXCEPT ![w] = r]
    /\ seen' = [seen EXCEPT ![w] = Seen(guests, ClientIP(r.xff, r.remote), now)]
    /\ UNCHANGED << now, ticks, guests, canceled >>
    /\ LET verdict == FormVerdict(r.form)
       IN  IF verdict = "parse-error"
           THEN Return(w, InternalError,
                       << "ParseForm", "logger.Error" >>)
           ELSE IF verdict = "missing"
           THEN Return(w, Response(StatusBadRequest, Empty, Empty),
                       << "ParseForm" >>)
           ELSE IF verdict = "blank"
           THEN Return(w, Response(StatusBadRequest, BlankBody, Empty),
                       << "ParseForm" >>)
           ELSE /\ message' = [message EXCEPT ![w] = JoinValues(r.form.values)]
                /\ ip' = [ip EXCEPT ![w] = ClientIP(r.xff, r.remote)]
                /\ pc' = [pc EXCEPT ![w] = "resolved"]
                /\ calls' = [calls EXCEPT ![w] =
                               << "ParseForm", "ParseIP" >>]
                /\ UNCHANGED << resp, wakeAt >>

\* Lines 111-118: the lookup of the identity's last entry, which fails when
\* the storage is at fault, and the one-minute rule.
RateLimit(w, fault) ==
    /\ pc[w] = "resolved"
    /\ LET last == IF fault THEN [err |-> "fault", createdAt |-> 0]
                   ELSE LastMessage(guests, ip[w])
       IN  IF Throttled(last, now)
           THEN /\ pc' = [pc EXCEPT ![w] = "sleeping"]
                /\ wakeAt' = [wakeAt EXCEPT ![w] = now + Minute]
                /\ calls' = [calls EXCEPT ![w] = calls[w] \o << "LastMessage", "Sleep" >>]
           ELSE /\ pc' = [pc EXCEPT ![w] = "checked"]
                /\ calls' = [calls EXCEPT ![w] = calls[w] \o << "LastMessage" >>]
                /\ UNCHANGED wakeAt
    /\ seen' = [seen EXCEPT ![w] = Seen(guests, ip[w], now)]
    /\ UNCHANGED << now, ticks, guests, req, message, ip, resp, canceled >>

\* Lines 115-116: time.Sleep(time.Minute) has elapsed and the handler
\* returns, having written nothing.
Wake(w) ==
    /\ pc[w] = "sleeping"
    /\ now >= wakeAt[w]
    /\ IF AfterSleep = "done"
       THEN Return(w, NoResponse, << >>)
       ELSE /\ pc' = [pc EXCEPT ![w] = AfterSleep]
            /\ UNCHANGED << message, ip, wakeAt, resp, calls >>
    /\ UNCHANGED << now, ticks, guests, req, seen, canceled >>

\* Lines 120-141: the line breaks are replaced, then the profanity and the
\* link are rejected.
Moderate(w) ==
    /\ pc[w] = "checked"
    /\ UNCHANGED << now, ticks, guests, req, seen, canceled >>
    /\ \E normalized \in {Normalize(message[w])} :
         LET verdict == Moderation(normalized)
         IN  IF verdict = "profane"
             THEN Return(w, Response(StatusBadRequest, ProfaneBody(ip[w]), Empty),
                         << "ReplaceAllString", "IsProfane" >>)
             ELSE IF verdict = "link"
             THEN Return(w, Response(StatusBadRequest, LinkBody, Empty),
                         << "ReplaceAllString", "IsProfane",
                            "MatchString" >>)
             ELSE /\ message' = [message EXCEPT ![w] = normalized]
                  /\ pc' = [pc EXCEPT ![w] = "moderated"]
                  /\ calls' = [calls EXCEPT ![w] = calls[w] \o
                                 << "ReplaceAllString", "IsProfane",
                                    "MatchString" >>]
                  /\ UNCHANGED << resp, ip, wakeAt >>

\* A slip: the entry takes the place of the identity's earlier entries.
Persist_Upsert(w, fail) ==
    /\ pc[w] = "moderated"
    /\ UNCHANGED << now, ticks, req, seen, canceled >>
    /\ IF fail = "NewGuest"
       THEN /\ Return(w, InternalError, << "NewGuest", "logger.Error" >>)
            /\ UNCHANGED guests
       ELSE IF fail = "Insert"
       THEN /\ Return(w, InternalError, << "NewGuest", "Insert", "logger.Error" >>)
            /\ UNCHANGED guests
       ELSE /\ guests' = Insert({g \in guests : g.ip # ip[w]},
                                NewGuest(w, message[w], ip[w], now))
            /\ Return(w, Response(StatusFound, Empty, << "/" >>),
                      << "NewGuest", "Insert", "Redirect" >>)

\* Lines 143-157: the entry is built and inserted, either of which may fail
\* (fail is "none", "NewGuest" or "Insert"), and the client is redirected to
\* the listing.
Persist(w, fail) ==
    /\ pc[w] = "moderated"
    /\ UNCHANGED << now, ticks, req, seen, canceled >>
    /\ IF fail = "NewGuest"
       THEN /\ Return(w, InternalError,
                      << "NewGuest", "logger.Error" >>)
            /\ UNCHANGED guests
       ELSE IF fail = "Insert"
       THEN /\ Return(w, InternalError,
                      << "NewGuest", "Insert", "logger.Error" >>)
            /\ UNCHANGED guests
       ELSE /\ guests' = Insert(guests, NewGuest(w, message[w], ip[w], now))
            /\ Return(w, Response(StatusFound, Empty, << "/" >>),
                      << "NewGuest", "Insert", "Redirect" >>)

\* Time passes.
Tick(d) ==
    /\ ticks < MaxTicks
    /\ now' = now + d
    /\ ticks' = ticks + 1
    /\ UNCHANGED << guests, pc, req, message, ip, wakeAt, resp, calls, seen,
                    canceled >>

\* Time passes until the sleep of worker w has elapsed.
Elapse(w) ==
    /\ pc[w] = "sleeping"
    /\ now < wakeAt[w]
    /\ now' = wakeAt[w]
    /\ UNCHANGED << ticks, guests, pc, req, message, ip, wakeAt, resp, calls, seen,
                    canceled >>

\* The steps that do not depend on the storage failing or not.
Steps ==
    \/ \E w \in Workers : \E r \in Requests : Receive(w, r)
    \/ \E w \in Workers : Wake(w)
    \/ \E w \in Workers : Moderate(w)
    \/ \E d \in TickSteps : Tick(d)
    \/ \E w \in Workers : Elapse(w)

\* The storage may fail at any call.
Next ==
    \/ Steps
    \/ \E w \in Workers : \E fault \in BOOLEAN : RateLimit(w, fault)
    \/ \E w \in Workers : \E fail \in {"none", "NewGuest", "Insert"} : Persist(w, fail)

Spec == Init /\ [][Next]_vars

\* The storage never fails.
NextReliable ==
    \/ Steps
    \/ \E w \in Workers : RateLimit(w, FALSE)
    \/ \E w \in Workers : Persist(w, "none")

SpecReliable == Init /\ [][NextReliable]_vars

\* Lines 111-116: the client goes away while the handler is in time.Sleep,
\* and the context of its request is canceled.  time.Sleep takes no context
\* and the handler does not select on r.Context().Done(): nothing else
\* changes.
Cancel(w) ==
    /\ pc[w] = "sleeping"
    /\ ~canceled[w]
    /\ canceled' = [canceled EXCEPT ![w] = TRUE]
    /\ UNCHANGED << now, ticks, guests, pc, req, message, ip, wakeAt, resp, calls,
                    seen >>

\* The storage never fails, and a client may go away during the delay.
NextCancel ==
    \/ NextReliable
    \/ \E w \in Workers : Cancel(w)

SpecCancel == Init /\ [][NextCancel]_vars

\* A step of the handler that runs for worker w.
WorkerStep(w) ==
    \/ \E fault \in BOOLEAN : RateLimit(w, fault)
    \/ Wake(w)
    \/ Moderate(w)
    \/ \E fail \in {"none", "NewGuest", "Insert"} : Persist(w, fail)

\* The steps of the handlers, the storage failing or not, with a clock that
\* the pending sleeps drive.
NextPaced ==
    \/ \E w \in Workers : \E r \in Requests : Receive(w, r)
    \/ \E w \in Workers : \E fault \in BOOLEAN : RateLimit(w, fault)
    \/ \E w \in Workers : Wake(w)
    \/ \E w \in Workers : Moderate(w)
    \/ \E w \in Workers : \E fail \in {"none", "NewGuest", "Insert"} : Persist(w, fail)
    \/ \E w \in Workers : Elapse(w)

\* The repository already holds an entry, of an earlier submission from
\* 5.6.7.8, when the workers start.
InitStored ==
    /\ now = 0
    /\ ticks = 0
    /\ guests = { NewGuest(0, TxtHi, ParseIP(IpStr(TxtRemoteV4)), 0) }
    /\ pc = [w \in Workers |-> "idle"]
    /\ req = [w \in Workers |-> NoRequest]
    /\ message = [w \in Workers |-> Empty]
    /\ ip = [w \in Workers |-> NoIP]
    /\ wakeAt = [w \in Workers |-> 0]
    /\ resp = [w \in Workers |-> NoResponse]
    /\ calls = [w \in Workers |-> << >>]
    /\ seen = [w \in Workers |-> "unset"]
    /\ canceled = [w \in Workers |-> FALSE]

SpecStored == InitStored /\ [][NextPaced]_vars

\* Fair scheduling: the goroutine of a request that can take a step
\* eventually takes one (the calls it makes return), and the clock reaches
\* the end of every time.Sleep.
SpecFair ==
    /\ Init
    /\ [][NextPaced]_vars
    /\ \A w \in Workers : WF_vars(WorkerStep(w)) /\ WF_vars(Elapse(w))

\* The normalization on its own, over every short text.

\* The characters of the texts: a letter, a space and the two characters of
\* the pattern.
Alphabet == {"a", " ", "\r", "\n"}

\* The longest text.
MaxLen == 4

Texts == UNION { [1..n -> Alphabet] : n \in 0..MaxLen }

\* How many times line 120 is applied to a text.
MaxApplications == 2

\* One worker stands before line 120 with any text as its message, sent as
\* the one value of the field.
InitTexts ==
    /\ now = 0
    /\ ticks = 0
    /\ guests = {}
    /\ \E w \in Workers : \E t \in Texts :
          /\ pc = [v \in Workers |-> IF v = w THEN "checked" ELSE "idle"]
          /\ req = [v \in Workers |->
                      IF v = w
                      THEN Request(Form(TRUE, TRUE, << t >>), Empty, TxtRemoteV4)
                      ELSE NoRequest]
          /\ message = [v \in Workers |-> IF v = w THEN t ELSE Empty]
    /\ ip = [w \in Workers |-> NoIP]
    /\ wakeAt = [w \in Workers |-> 0]
    /\ resp = [w \in Workers |-> NoResponse]
    /\ calls = [w \in Workers |-> << >>]
    /\ seen = [w \in Workers |-> "unset"]
    /\ canceled = [w \in Workers |-> FALSE]

\* Line 120 alone: message = newlineRegex.ReplaceAllString(message, " ").
Renormalize(w) ==
    /\ pc[w] = "checked"
    /\ Len(calls[w]) < MaxApplications
    /\ message' = [message EXCEPT ![w] = Normalize(message[w])]
    /\ calls' = [calls EXCEPT ![w] = calls[w] \o << "ReplaceAllString" >>]
    /\ UNCHANGED << now, ticks, guests, pc, req, ip, wakeAt, resp, seen, canceled >>

NextNormalize == \E w \in Workers : Renormalize(w)

SpecNormalize == InitTexts /\ [][NextNormalize]_vars

\* ------------------------------------------------------------ statements

\* Worker w made the call op.
Called(w, op) == \E i \in 1..Len(calls[w]) : calls[w][i] = op

\* The entries that the submission of worker w persisted.
Entries(w) == {g \in guests : g.id = w}

\* Worker w holds a request whose form parsed and has the message field.
HasMessage(w) == pc[w] # "idle" /\ req[w].form.ok /\ req[w].form.has

\* Every character of t is white space.
AllWhite(t) == \A i \in 1..Len(t) : t[i] \in WhiteSpace

\* The submission of worker w has a message that trims to nothing.
BlankSubmission(w) ==
    /\ HasMessage(w)
    /\ \A i \in 1..Len(req[w].form.values) : AllWhite(req[w].form.values[i])

\* The message that worker w was sent.
Submitted(w) == Join(req[w].form.values, << " " >>)

\* Worker w is between the resolution of its identity and its return.
InFlight(w) == pc[w] \in {"resolved", "sleeping", "checked", "moderated"}

\* The addresses 5.6.7.8 and ::1 as identities.
IP5678 == << 0, 0, 0, 0, 0, 65535, 5 * 256 + 6, 7 * 256 + 8 >>

IPLoopback6 == << 0, 0, 0, 0, 0, 0, 0, 1 >>

\* C1: a submission whose message is empty or white space only ends
\* rejected-blank (status 400, "Blank messages don't count"), whatever its
\* identity and the age of the identity's last entry, without a lookup, a
\* sleep or an insert.
C1_BlankRejected ==
    \A w \in Workers :
        BlankSubmission(w) =>
            /\ pc[w] = "done"
            /\ resp[w] = Response(StatusBadRequest, BlankBody, Empty)
            /\ ~Called(w, "LastMessage")
            /\ ~Called(w, "Sleep")
            /\ ~Called(w, "Insert")
            /\ Entries(w) = {}

\* A blank submission was rejected while its identity had an entry less than
\* a minute old.
C1_Witness ==
    \E w \in Workers :
        /\ BlankSubmission(w)
        /\ seen[w] = "fresh"
        /\ resp[w].body = BlankBody

\* C2, as stated: every submission that carries a message, from an identity
\* whose last entry is less than a minute old, ends rate-limited, whatever
\* the message.
C2_Original ==
    \A w \in Workers :
        (pc[w] = "done" /\ HasMessage(w) /\ seen[w] = "fresh") =>
            /\ Called(w, "Sleep")
            /\ resp[w] = NoResponse

\* The state part of C2 as amended: past the lookup, a submission with a
\* message that is not blank, whose identity had an entry less than a minute
\* old at the lookup, sleeps and returns an empty response, and nothing of
\* it is persisted.
C2_Delayed ==
    \A w \in Workers :
        (HasMessage(w) /\ ~BlankSubmission(w) /\ seen[w] = "fresh"
           /\ pc[w] \in {"sleeping", "checked", "moderated", "done"}) =>
            /\ pc[w] \in {"sleeping", "done"}
            /\ Called(w, "Sleep")
            /\ resp[w] = NoResponse
            /\ ~Called(w, "Insert")
            /\ Entries(w) = {}

\* The step part: the sleep that starts at the lookup lasts the whole minute.
C2_SleepsAMinute ==
    \A w \in Workers :
        /\ (pc[w] = "resolved" /\ pc'[w] = "sleeping") => wakeAt'[w] = now + Minute
        /\ (pc[w] = "sleeping" /\ pc'[w] # "sleeping") => now >= wakeAt[w]

\* C2, amended: with the storage answering, every submission with a message
\* that is not blank, from an identity whose last entry is less than a
\* minute old when the handler looks it up, is rate-limited whatever the
\* message: a one-minute sleep, then an empty response, nothing persisted.
C2_RateLimited == [] C2_Delayed /\ [][C2_SleepsAMinute]_vars

\* A profane message with a link was rate-limited and its worker returned.
C2_Witness ==
    \E w \in Workers :
        /\ pc[w] = "done"
        /\ req[w].form.values = << TxtCrapDomain >>
        /\ seen[w] = "fresh"
        /\ Called(w, "Sleep")

\* C3: a submission whose identity has no entry, or a last entry a minute
\* old or older (exactly a minute included), is not delayed by the rate
\* limiter and goes on to the normalization and the moderation.
C3_NotDelayed ==
    \A w \in Workers :
        (Called(w, "LastMessage") /\ seen[w] \in {"none", "edge", "old"}) =>
            /\ ~Called(w, "Sleep")
            /\ pc[w] \in {"checked", "moderated", "done"}
            /\ pc[w] # "checked" =>
                 Called(w, "ReplaceAllString") /\ Called(w, "IsProfane")

\* A submission passed the rate limiter with a last entry exactly a minute
\* old.
C3_Witness ==
    \E w \in Workers : seen[w] = "edge" /\ pc[w] = "moderated"

\* C4, as stated: no two persisted entries of one identity are less than a
\* minute apart.
C4_MinimumInterval ==
    \A g, h \in guests :
        (g # h /\ g.ip = h.ip /\ g.ip # NoIP) =>
            \/ g.createdAt - h.createdAt >= Minute
            \/ h.createdAt - g.createdAt >= Minute

\* Worker w was rejected: a client error, or the rate limiter's sleep.
Rejected(w) ==
    \/ pc[w] = "done" /\ resp[w].status = StatusBadRequest
    \/ Called(w, "Sleep")

\* C5: a rejected submission (missing field, blank, rate-limited, profane,
\* link) never called NewGuest or Insert, and no stored entry is its own.
C5_RejectedNotPersisted ==
    \A w \in Workers :
        Rejected(w) =>
            /\ ~Called(w, "NewGuest")
            /\ ~Called(w, "Insert")
            /\ Entries(w) = {}

\* A rate-limited submission returned, and the repository holds an entry,
\* another submission's.
C5_Witness ==
    \E w \in Workers :
        /\ pc[w] = "done"
        /\ Called(w, "Sleep")
        /\ guests # {}
        /\ Entries(w) = {}

\* A text that is not blank, has no line break, no profanity and no link.
PlainText(t) ==
    /\ ~AllWhite(t)
    /\ \A i \in 1..Len(t) : t[i] # "\n"
    /\ ~IsProfane(t)
    /\ ~HasSchemeURL(t)
    /\ ~HasBareDomain(t)

\* C6: with the storage answering, a submission of a plain text from an
\* identity that has no entry less than a minute old persists exactly one
\* entry, with the submitted text and the resolved identity, and redirects
\* to the listing.
C6_Accepted ==
    \A w \in Workers :
        (pc[w] = "done" /\ HasMessage(w) /\ PlainText(Submitted(w))
           /\ seen[w] # "fresh") =>
            /\ resp[w] = Response(StatusFound, Empty, << "/" >>)
            /\ Cardinality(Entries(w)) = 1
            /\ \A g \in Entries(w) :
                 /\ g.message = Submitted(w)
                 /\ g.ip = ClientIP(req[w].xff, req[w].remote)

\* A text with white space around it was accepted and stored as it was sent.
C6_Witness ==
    \E w \in Workers :
        /\ pc[w] = "done"
        /\ req[w].form.values = << TxtPadded >>
        /\ \E g \in Entries(w) : g.message = TxtPadded /\ g.ip = IP5678
        /\ resp[w].status = StatusFound

\* The text holds a URL with a scheme or a bare domain.
HoldsLink(t) == HasSchemeURL(t) \/ HasBareDomain(t)

\* C7, as stated: every message that holds a link ends rejected-link.
C7_Original ==
    \A w \in Workers :
        (pc[w] = "done" /\ HasMessage(w) /\ HoldsLink(Submitted(w))) =>
            resp[w] = Response(StatusBadRequest, LinkBody, Empty)

\* C7, amended: every message that holds a link, is not profane once its
\* line breaks are replaced, and whose submission is not rate-limited, ends
\* rejected-link (status 400, "No links allowed").
C7_LinkRejected ==
    \A w \in Workers :
        (pc[w] = "done" /\ HasMessage(w) /\ HoldsLink(Submitted(w))
           /\ ~IsProfane(ReplaceNewlines(Submitted(w))) /\ ~Called(w, "Sleep")) =>
            /\ resp[w] = Response(StatusBadRequest, LinkBody, Empty)
            /\ Entries(w) = {}

\* A message with a bare domain was rejected as a link.
C7_Witness ==
    \E w \in Workers :
        /\ pc[w] = "done"
        /\ req[w].form.values = << TxtSeeDomain >>
        /\ resp[w] = Response(StatusBadRequest, LinkBody, Empty)

\* The last comma-separated entry of a header, without the white space
\* around it.
LastEntry(xff) == TrimSpace(Split(xff, ",")[Len(Split(xff, ","))])

\* C8, as stated: with a header whose last entry is not empty, the identity
\* is the address of that entry; "1.2.3.4, 5.6.7.8" gives 5.6.7.8.
C8_LastEntryWins ==
    \A w \in Workers :
        (InFlight(w) /\ LastEntry(req[w].xff) # Empty) =>
            /\ ip[w] = ParseIP(LastEntry(req[w].xff))
            /\ req[w].xff = TxtXffSpaced => ip[w] = IP5678

\* The index of the last c in s, or 0.
LastIndex(s, c) ==
    IF \E i \in 1..Len(s) : s[i] = c
    THEN CHOOSE i \in 1..Len(s) : s[i] = c /\ \A j \in (i + 1)..Len(s) : s[j] # c
    ELSE 0

\* The header gives no candidate: it is empty or ends with a comma.
NoCandidate(xff) == xff = Empty \/ xff[Len(xff)] = ","

\* C9: without a candidate from the header, the identity is the connection
\* address up to its last colon, its brackets trimmed, parsed; "[::1]:54321"
\* gives ::1.
C9_RemoteFallback ==
    \A w \in Workers :
        (InFlight(w) /\ NoCandidate(req[w].xff)) =>
            /\ ip[w] = ParseIP(Trim(SubSeq(req[w].remote, 1,
                                           LastIndex(req[w].remote, ":") - 1),
                                    {"[", "]"}))
            /\ req[w].remote = TxtRemoteV6 => ip[w] = IPLoopback6

\* A request from [::1]:54321 with no header resolved to ::1.
C9_Witness ==
    \E w \in Workers :
        /\ InFlight(w)
        /\ req[w].xff = Empty
        /\ req[w].remote = TxtRemoteV6
        /\ ip[w] = IPLoopback6

\* C10: a request without the message field ends with status 400 and an
\* empty body, having made no call but ParseForm, with nothing persisted; a
\* blank message ends with the body "Blank messages don't count" instead.
C10_MissingField ==
    \A w \in Workers :
        /\ (pc[w] # "idle" /\ req[w].form.ok /\ ~req[w].form.has) =>
              /\ pc[w] = "done"
              /\ resp[w] = Response(StatusBadRequest, Empty, Empty)
              /\ calls[w] = << "ParseForm" >>
              /\ Entries(w) = {}
        /\ BlankSubmission(w) =>
              /\ resp[w].body = BlankBody
              /\ resp[w] # Response(StatusBadRequest, Empty, Empty)

\* A request without the field was answered 400 with an empty body.
C10_Witness ==
    \E w \in Workers :
        /\ pc[w] = "done"
        /\ req[w].form.ok
        /\ ~req[w].form.has
        /\ resp[w] = Response(StatusBadRequest, Empty, Empty)

\* Worker w returned after logging a failure.
Failed(w) == pc[w] = "done" /\ Called(w, "logger.Error")

\* The state part of C11: a request whose form does not parse fails; a
\* failed submission is answered 500 with an empty body and no Location, was
\* not redirected and has no entry; and 500 answers nothing but a failure.
C11_Outcome ==
    \A w \in Workers :
        /\ (pc[w] # "idle" /\ ~req[w].form.ok) => Failed(w)
        /\ Failed(w) =>
              /\ resp[w] = Response(StatusInternalServerError, Empty, Empty)
              /\ ~Called(w, "Redirect")
              /\ Entries(w) = {}
        /\ (pc[w] = "done" /\ ~Called(w, "logger.Error")) =>
              resp[w].status # StatusInternalServerError

\* The step part: the step in which a worker logs a failure and returns
\* leaves the stored entries as they were.
C11_EntriesUnchanged ==
    \A w \in Workers :
        (pc[w] # "done" /\ pc'[w] = "done"
           /\ \E i \in 1..Len(calls'[w]) : calls'[w][i] = "logger.Error") =>
            guests' = guests

\* C11: when the form parsing, the construction of the entry or the Insert
\* fails, Create logs the failure and ends with status 500 and an empty
\* body, an outcome that no rejection and no acceptance has; no redirect is
\* issued and the stored entries are unchanged.
C11_InternalError == [] C11_Outcome /\ [][C11_EntriesUnchanged]_vars

\* An Insert failed while the repository held another submission's entry.
C11_Witness ==
    \E w \in Workers :
        /\ Failed(w)
        /\ Called(w, "Insert")
        /\ resp[w].status = StatusInternalServerError
        /\ guests # {}

\* C12, as stated: a worker whose request context is canceled while its
\* one-minute delay is pending abandons the delay: from the cancellation on
\* its return is possible, whatever remains of the minute, and nothing of
\* its submission is persisted.
C12_AbandonsDelay ==
    \A w \in Workers :
        (pc[w] = "sleeping" /\ canceled[w]) =>
            /\ ENABLED Wake(w)
            /\ Entries(w) = {}

\* The requests whose candidate address does not parse.
Unparsed == {r \in Requests : ClientIP(r.xff, r.remote) = NoIP}

\* The submission of worker w passed the form checks and its candidate
\* address does not parse: its identity is absent.
AbsentIdentity(w) ==
    /\ req[w] \in Unparsed
    /\ HasMessage(w)
    /\ ~BlankSubmission(w)

\* C13, as stated: a submission whose identity is absent skips the rate
\* limiter: LastMessage is not called for it and it is never delayed.
C13_LookupSkipped ==
    \A w \in Workers :
        AbsentIdentity(w) =>
            /\ ~Called(w, "LastMessage")
            /\ ~Called(w, "Sleep")

\* The text that stands for an absent identity.
NilText == << "<", "n", "i", "l", ">" >>

\* The requests whose message, its line breaks read as spaces, is profane.
Profane ==
    {r \in Requests :
        \E t \in {Join(r.form.values, << " " >>)} :
            \E u \in {ReplaceNewlines(t)} : IsProfane(u)}

\* C14: a profane submission whose identity is absent still ends
\* rejected-profane: the handler returns status 400, and the rendered
\* message carries the placeholder "<nil>" where the identity's text would
\* be; nothing is persisted.
C14_ProfaneWithoutIdentity ==
    \A w \in Workers :
        (pc[w] = "done" /\ AbsentIdentity(w) /\ req[w] \in Profane) =>
            /\ resp[w] = Response(StatusBadRequest,
                                  << "Please don't use profanity. Your IP has been tracked " >>
                                      \o NilText,
                                  Empty)
            /\ Entries(w) = {}

\* A profanity sent through the header "unknown" was rejected as profane.
C14_Witness ==
    \E w \in Workers :
        /\ pc[w] = "done"
        /\ req[w].xff = TxtXffJunk
        /\ req[w].form.values = << TxtCrap >>
        /\ resp[w].status = StatusBadRequest
        /\ Called(w, "IsProfane")

\* The step part of C15: a lookup that returns an error, the not-found one
\* or a fault of the storage, starts no sleep and takes the handler past
\* the rate limiter.
C15_ErrorLetsThrough ==
    \A w \in Workers :
        (pc[w] = "resolved" /\ pc'[w] # "resolved"
           /\ \/ \A g \in guests : g.ip # ip[w] \/ ip[w] = NoIP
              \/ RateLimit(w, TRUE)) =>
            /\ pc'[w] = "checked"
            /\ calls'[w] = calls[w] \o << "LastMessage" >>
            /\ wakeAt'[w] = wakeAt[w]

\* The state part: a handler that is past the lookup without a sleep goes
\* on to the normalization and the moderation, also when its identity had
\* an entry less than a minute old at the lookup, and never sleeps.
C15_GoesOn ==
    \A w \in Workers :
        pc[w] \in {"checked", "moderated"} =>
            /\ calls[w][Len(calls[w])] # "Sleep"
            /\ calls[w][3] = "LastMessage"
            /\ pc[w] = "moderated" =>
                  /\ calls[w][4] = "ReplaceAllString"
                  /\ calls[w][5] = "IsProfane"

\* C15: the rate limiter fails open: when the LastMessage lookup returns any
\* error the submission is not delayed and proceeds to the normalization
\* and the moderation, even if its identity has an entry less than a minute
\* old.
C15_FailOpen == [] C15_GoesOn /\ [][C15_ErrorLetsThrough]_vars

\* A submission whose identity had an entry less than a minute old at the
\* lookup was moderated without having slept.
C15_Witness ==
    \E w \in Workers :
        /\ seen[w] = "fresh"
        /\ Called(w, "LastMessage")
        /\ Called(w, "IsProfane")
        /\ ~Called(w, "Sleep")

\* C16: the normalization is idempotent over all texts: applied to a text
\* that it has already been applied to, the replacement of every CR LF and
\* bare LF by one space changes nothing.
C16_Idempotent ==
    [][\A w \in Workers :
          Called(w, "ReplaceAllString") => message'[w] = message[w]]_vars

\* The normalization was applied twice to a text with two line breaks and a
\* CR before a CR LF, and all of its line breaks are spaces.
C16_Witness ==
    \E w \in Workers :
        /\ Len(calls[w]) = MaxApplications
        /\ req[w].form.values = << << "\r", "\r", "\n", "\n" >> >>
        /\ message[w] = << "\r", " ", " " >>

\* The positions of t that are not the CR of a CR LF pair.
Kept(t) ==
    {i \in 1..Len(t) : ~(t[i] = "\r" /\ i < Len(t) /\ t[i + 1] = "\n")}

\* t with each CR LF pair and each bare LF read as one space, everything
\* else as it is.
OneLine(t) ==
    LET nth(k) == CHOOSE i \in Kept(t) :
                      Cardinality({j \in Kept(t) : j < i}) = k - 1
    IN  [k \in 1..Cardinality(Kept(t)) |->
            IF t[nth(k)] = "\n" THEN " " ELSE t[nth(k)]]

\* The one-line reading of the message of each request.
OneLineOf ==
    [r \in Requests |-> OneLine(Join(r.form.values, << " " >>))]

\* C17: the text of every persisted entry is single-line: it holds no LF,
\* and it is the values of the field joined by one space, each CR LF pair
\* and each bare LF of which is one space, with the white space at its ends
\* kept.
C17_SingleLine ==
    \A g \in guests :
        /\ \A i \in 1..Len(g.message) : g.message[i] # "\n"
        /\ g.message = OneLineOf[req[g.id]]

\* The message "a\r\nb\nc" was persisted as "a b c", next to another entry.
C17_Witness ==
    \E g \in guests :
        /\ req[g.id].form.values = << TxtMultiLine >>
        /\ g.message = << "a", " ", "b", " ", "c" >>
        /\ \E h \in guests : h # g

\* The calls of Create that make its steps, in the order of the pipeline:
\* form validation, identity resolution, rate-limit lookup, normalization,
\* profanity check, link check, construction, insert.
Pipeline ==
    << "ParseForm", "ParseIP", "LastMessage", "ReplaceAllString", "IsProfane",
       "MatchString", "NewGuest", "Insert" >>

\* The place of each call in the pipeline, 0 for the calls outside it.
Rank ==
    [op \in {"ParseForm", "ParseIP", "LastMessage", "Sleep", "ReplaceAllString",
              "IsProfane", "MatchString", "NewGuest", "Insert", "Redirect",
              "logger.Error"} |->
        IF \E k \in 1..Len(Pipeline) : Pipeline[k] = op
        THEN CHOOSE k \in 1..Len(Pipeline) : Pipeline[k] = op
        ELSE 0]

\* The requests whose message holds a link.
Linked ==
    {r \in Requests :
        \E t \in {Join(r.form.values, << " " >>)} : HoldsLink(t)}

\* C18: in every execution of Create the steps occur in the order of the
\* pipeline, each at most once and none skipped: the k-th call of a worker
\* is the k-th step of the pipeline, or it is the call that ends the
\* execution (the sleep, the logging of a failure, the redirect); hence the
\* lookup precedes the normalization, the normalization the profanity
\* check, the profanity check the link check, and Insert comes after all of
\* them; so a message that is profane and holds a link, when it is
\* moderated, is rejected as profane, the link check not having run.
C18_StepOrder ==
    \A w \in Workers :
        /\ \A k \in 1..Len(calls[w]) :
              \/ Rank[calls[w][k]] = k
              \/ Rank[calls[w][k]] = 0 /\ k = Len(calls[w])
        /\ (pc[w] = "done" /\ req[w] \in Linked /\ req[w] \in Profane
              /\ Called(w, "LastMessage") /\ ~Called(w, "Sleep")) =>
              /\ resp[w].status = StatusBadRequest
              /\ resp[w].body # LinkBody
              /\ resp[w].body[1]
                   = "Please don't use profanity. Your IP has been tracked "
              /\ ~Called(w, "MatchString")

\* A profane message with a link was rejected as profane while another
\* submission went through the whole pipeline to its insert.
C18_Witness ==
    \E w, v \in Workers :
        /\ pc[w] = "done"
        /\ req[w].form.values = << TxtCrapDomain >>
        /\ Called(w, "IsProfane")
        /\ resp[w].status = StatusBadRequest
        /\ Called(v, "Insert")

\* The step part of C19: a worker that has returned takes no further step:
\* its response and its calls stay as they are, and it adds no entry; and
\* the step that ends a sleep is the return.
C19_NoFurtherStep ==
    \A w \in Workers :
        /\ pc[w] = "done" =>
            /\ pc'[w] = "done"
            /\ resp'[w] = resp[w]
            /\ calls'[w] = calls[w]
            /\ {g \in guests' : g.id = w} = Entries(w)
        /\ (pc[w] = "sleeping" /\ pc'[w] # "sleeping") => pc'[w] = "done"

\* The liveness part: every submission received eventually returns, the
\* rate-limited one included.
C19_Returns ==
    \A w \in Workers :
        /\ (pc[w] # "idle") ~> (pc[w] = "done")
        /\ (pc[w] = "sleeping") ~> (pc[w] = "done" /\ Called(w, "Sleep"))

\* C19: under fair scheduling every submission eventually reaches one
\* terminal state (persisted, rejected or internal error), the rate-limited
\* one when its minute has elapsed, and after it the worker takes no
\* further step: no retry, no second lookup, insert or response.
C19_Terminates == C19_Returns /\ [][C19_NoFurtherStep]_vars

\* Every worker has returned, one of them from the rate limiter's sleep.
C19_Witness ==
    /\ \A w \in Workers : pc[w] = "done"
    /\ \E w \in Workers : Called(w, "Sleep") /\ resp[w] = NoResponse
    /\ \E w \in Workers : Called(w, "Redirect")

\* The step part of C20: a step of Create removes and changes no stored
\* entry and adds at most one; the step that ends a worker's delay changes
\* neither the entries nor the clock nor anything of another worker.
C20_EntriesOnlyGrow ==
    /\ guests \subseteq guests'
    /\ Cardinality(guests' \ guests) <= 1
    /\ \A w \in Workers :
          (pc[w] = "sleeping" /\ pc'[w] # "sleeping") =>
              /\ guests' = guests
              /\ now' = now
              /\ \A v \in Workers \ {w} :
                    /\ pc'[v] = pc[v]
                    /\ message'[v] = message[v]
                    /\ ip'[v] = ip[v]
                    /\ resp'[v] = resp[v]

\* The state part: a submission has at most one entry, a worker in its
\* delay has none, and while a worker is in its delay every other worker
\* that has a step to take can take it.
C20_OnlyTheSleeperWaits ==
    \A w \in Workers :
        /\ Cardinality(Entries(w)) <= 1
        /\ pc[w] = "sleeping" =>
              /\ Entries(w) = {}
              /\ \A v \in Workers \ {w} :
                    pc[v] \in {"resolved", "checked", "moderated"} =>
                        ENABLED WorkerStep(v)

\* C20: Create never modifies or removes a persisted entry: across every
\* interleaving of submissions each step leaves the entries persisted before
\* it as they were, one submission adds at most one entry, so the entries
\* only grow; and a worker held in the rate-limit delay changes no state
\* that another worker reads, nor keeps another worker from its steps.
C20_Frame == [] C20_OnlyTheSleeperWaits /\ [][C20_EntriesOnlyGrow]_vars

\* While a worker was held in its delay, another worker persisted an entry
\* next to the one that the repository held from the start.
C20_Witness ==
    \E w, v \in Workers :
        /\ pc[w] = "sleeping"
        /\ \E g \in Entries(v) : g.createdAt > wakeAt[w] - Minute
        /\ \E g \in guests : g.id = 0
        /\ Cardinality(guests) = 2

====
